---------------------------- MODULE Spec2Model ----------------------------
(***************************************************************************)
(* Model of project.py: the deduplicating store (store_data_in_sql), the   *)
(* signal derivation (compute_signals), the signal counter                 *)
(* (CryptoAnalyzer.analyze_data) and the linear run of main().             *)
(*                                                                         *)
(* Candles are daily (TIMEFRAME = "1d"): a timestamp is a day, rendered to *)
(* text as two zero-padded digits (the ISO-8601 day field), and the store  *)
(* compares the rendered texts lexicographically, as SQLite's MAX and the  *)
(* pandas string comparison do.  Prices and volumes are the float values   *)
(* the frame holds after the conversion of project.py:66-68.               *)
(* The indicator values (EMA, RSI, VWAP, Bollinger bands) come from the    *)
(* technical-analysis library; the model draws them from small sets.       *)
(***************************************************************************)
EXTENDS Integers, Sequences, FiniteSets, TLC

\* Bounds of the model.
NumDays == 2
MaxLen == 2

(***************************************************************************)
(* Data                                                                    *)
(***************************************************************************)
\* Days of the month 9, 10, ...: their texts cross the 09 / 10 boundary.
Days == 9..(8 + NumDays)

QuoteA == [open |-> 2, high |-> 3, low |-> 1, close |-> 2, volume |-> 1]
QuoteB == [open |-> 3, high |-> 4, low |-> 2, close |-> 3, volume |-> 2]
Quotes == {QuoteA, QuoteB}

\* One OHLCV row of a frame: the six columns of project.py:45.
Candle(d, q) ==
    [timestamp |-> d, open |-> q.open, high |-> q.high, low |-> q.low,
     close |-> q.close, volume |-> q.volume]

Candles == {Candle(d, q) : d \in Days, q \in Quotes}

BoundedSeq(S, n) == UNION {[1..k -> S] : k \in 0..n}

\* The frames a caller can pass to store_data_in_sql: any order, repeats allowed.
Frames == BoundedSeq(Candles, MaxLen)

Range(s) == {s[i] : i \in 1..Len(s)}

\* df["timestamp"].astype(str): the day as two zero-padded decimal digits.
AsTypeStr(d) == <<d \div 10, d % 10>>

\* pd.to_datetime on a stored text: the inverse rendering.
ToDatetime(s) == s[1] * 10 + s[2]

\* Lexicographic order on texts (a proper prefix is smaller).
RECURSIVE LexLess(_, _)
LexLess(a, b) ==
    IF b = <<>> THEN FALSE
    ELSE IF a = <<>> THEN TRUE
    ELSE IF Head(a) # Head(b) THEN Head(a) < Head(b)
    ELSE LexLess(Tail(a), Tail(b))

\* SELECT MAX(timestamp): the greatest stored text; None (here <<>>, which
\* is falsy like None at project.py:95) when the table has no row.
MaxTimestamp(rows) ==
    IF rows = <<>> THEN <<>>
    ELSE CHOOSE m \in {r.timestamp : r \in Range(rows)} :
             \A r \in Range(rows) : ~LexLess(m, r.timestamp)

(***************************************************************************)
(* The database                                                            *)
(***************************************************************************)
\* file: the database file exists; table_exists / index_exists: the CREATE
\* statements have run; rows: the table's rows in insertion (rowid) order.
FreshDb == [file |-> FALSE, table_exists |-> FALSE, index_exists |-> FALSE,
            rows |-> <<>>]

VARIABLES db, pc, df, before, ret, conn, again, fetch_failed,
          signals_data, analysis_results

vars == <<db, pc, df, before, ret, conn, again, fetch_failed,
          signals_data, analysis_results>>

(***************************************************************************)
(* store_data_in_sql                                                       *)
(***************************************************************************)
\* project.py:61 df.empty
IsEmptyNever(d) == FALSE
IsEmpty(d) == d = <<>>

\* project.py:97 the filter: the rendered timestamp is greater than the maximum.
NewerReversed(ts, last) == LexLess(ts, last)
Newer(ts, last) == LexLess(last, ts)

\* The row written for a candle: the text timestamp and the five floats.
StoredRow(c) == [c EXCEPT !.timestamp = AsTypeStr(c.timestamp)]

RECURSIVE Filter(_, _)
Filter(d, last) ==
    IF d = <<>> THEN <<>>
    ELSE IF Newer(AsTypeStr(Head(d).timestamp), last)
         THEN <<StoredRow(Head(d))>> \o Filter(Tail(d), last)
         ELSE Filter(Tail(d), last)

RECURSIVE AllRows(_)
AllRows(d) ==
    IF d = <<>> THEN <<>> ELSE <<StoredRow(Head(d))>> \o AllRows(Tail(d))

\* project.py:94-99 df_to_insert
DfToInsert(d, last) == IF last # <<>> THEN Filter(d, last) ELSE AllRows(d)

\* timestamp TEXT PRIMARY KEY: no two rows share a timestamp.
PrimaryKeyOK(rows) ==
    \A i, j \in 1..Len(rows) : rows[i].timestamp = rows[j].timestamp => i = j

\* project.py:111 to_sql(if_exists="append"): one transaction; a primary-key
\* conflict raises and rolls the whole insert back.
ToSqlReplace(rows, ins) ==
    [ok |-> PrimaryKeyOK(ins), rows |-> IF PrimaryKeyOK(ins) THEN ins ELSE rows]
ToSqlNoKey(rows, ins) == [ok |-> TRUE, rows |-> rows \o ins]
ToSql(rows, ins) ==
    IF PrimaryKeyOK(rows \o ins)
    THEN [ok |-> TRUE, rows |-> rows \o ins]
    ELSE [ok |-> FALSE, rows |-> rows]

\* project.py:116 the returned count
ReturnedLenDf(d, ins) == Len(d)
Returned(d, ins) == Len(ins)

\* The whole call: the outcome, the returned value, the database after it
\* and the state of the connection it opened.
store_data_in_sql(d, database) ==
    IF IsEmpty(d)
    THEN [raised |-> FALSE, ret |-> 0, db |-> database, conn |-> "none"]
    ELSE LET created == [database EXCEPT !.file = TRUE,
                                         !.table_exists = TRUE,
                                         !.index_exists = TRUE]
             last_timestamp_in_db == MaxTimestamp(created.rows)
             df_to_insert == DfToInsert(d, last_timestamp_in_db)
             written == ToSql(created.rows, df_to_insert)
         IN  IF df_to_insert = <<>>
             THEN [raised |-> FALSE, ret |-> 0, db |-> created,
                   conn |-> "closed"]
             ELSE IF written.ok
             THEN [raised |-> FALSE, ret |-> Returned(d, df_to_insert),
                   db |-> [created EXCEPT !.rows = written.rows],
                   conn |-> "closed"]
             ELSE [raised |-> TRUE, ret |-> 0, db |-> created,
                   conn |-> "open"]

(***************************************************************************)
(* fetch_data                                                              *)
(***************************************************************************)
\* project.py:47 sort_values("timestamp"): the rows ascend by timestamp.
IsSorted(d) ==
    \A i, j \in 1..Len(d) : i < j => d[i].timestamp <= d[j].timestamp

\* What fetch_data returns when the exchange answers: a sorted frame.
FetchedFrames == {d \in Frames : IsSorted(d)}

(***************************************************************************)
(* compute_signals                                                         *)
(***************************************************************************)
\* pd.DataFrame(): no column, no row.
EmptyDataFrame == [columns |-> {}, rows |-> <<>>]

PriceColumns == {"open", "high", "low", "close", "volume"}
IndicatorColumns == {"EMA_20", "RSI", "VWAP", "BB_upper", "BB_lower"}

\* ORDER BY timestamp: the rows by ascending text (the key is unique).
RECURSIVE OrderByTimestamp(_)
OrderByTimestamp(rows) ==
    IF rows = <<>> THEN <<>>
    ELSE LET k == CHOOSE i \in 1..Len(rows) :
                      \A j \in 1..Len(rows) :
                          ~LexLess(rows[j].timestamp, rows[i].timestamp)
             rest == SubSeq(rows, 1, k - 1) \o SubSeq(rows, k + 1, Len(rows))
         IN  <<rows[k]>> \o OrderByTimestamp(rest)

\* project.py:154-159
bullish_conditions_Inclusive(r) ==
    /\ r.close >= r.EMA_20
    /\ r.close > r.VWAP
    /\ r.RSI > 50 /\ r.RSI < 70
    /\ r.close < r.BB_upper
bullish_conditions(r) ==
    /\ r.close > r.EMA_20
    /\ r.close > r.VWAP
    /\ r.RSI > 50 /\ r.RSI < 70
    /\ r.close < r.BB_upper

\* project.py:162-167
bearish_conditions_Copied(r) ==
    /\ r.close > r.EMA_20
    /\ r.close > r.VWAP
    /\ r.RSI < 70
    /\ r.close > r.BB_lower
bearish_conditions(r) ==
    /\ r.close < r.EMA_20
    /\ r.close < r.VWAP
    /\ r.RSI < 50
    /\ r.close > r.BB_lower

\* project.py:151, 170, 171: the column starts at 0, the buy rows are set
\* to 1, then the sell rows are set to -1.
Signal(r) ==
    LET initial == 0
        after_buy == IF bullish_conditions(r) THEN 1 ELSE initial
    IN  IF bearish_conditions(r) THEN -1 ELSE after_buy

\* project.py:150-173: the frame with the signal column attached.
AssignSignals(d) ==
    [columns |-> d.columns \cup {"signal"},
     rows |-> [i \in 1..Len(d.rows) |-> d.rows[i] @@ [signal |-> Signal(d.rows[i])]]]

\* Indicator values the library can yield for a row of the model's closes.
IndicatorSamples ==
    {[EMA_20 |-> 1, RSI |-> 60, VWAP |-> 1, BB_upper |-> 5, BB_lower |-> 0],
     [EMA_20 |-> 4, RSI |-> 40, VWAP |-> 4, BB_upper |-> 5, BB_lower |-> 0],
     [EMA_20 |-> 2, RSI |-> 50, VWAP |-> 2, BB_upper |-> 3, BB_lower |-> 2]}

\* project.py:137-148: the stored rows with the timestamp parsed back and
\* the indicator columns attached; dropna removes the warmup leading rows,
\* for which an indicator is undefined.
IndicatorFrame(rows, warmup, ind) ==
    [columns |-> PriceColumns \cup IndicatorColumns,
     rows |-> [i \in 1..(Len(rows) - warmup) |->
                  [rows[i + warmup] EXCEPT
                       !.timestamp = ToDatetime(rows[i + warmup].timestamp)]
                  @@ ind[i]]]

\* The whole call on a table that exists.
compute_signals(database, warmup, ind) ==
    LET rows == OrderByTimestamp(database.rows)
    IN  IF rows = <<>> THEN EmptyDataFrame
        ELSE AssignSignals(IndicatorFrame(rows, warmup, ind))

(***************************************************************************)
(* CryptoAnalyzer.analyze_data                                             *)
(***************************************************************************)
\* df.empty: an axis of length 0.
Empty(d) == d.columns = {} \/ d.rows = <<>>

CountSignal(d, v) == Cardinality({i \in 1..Len(d.rows) : d.rows[i].signal = v})

analyze_data_CopyPaste(d) ==
    IF Empty(d) \/ "signal" \notin d.columns
    THEN [buy |-> 0, sell |-> 0, hold |-> 0]
    ELSE [buy |-> CountSignal(d, 1), sell |-> CountSignal(d, 1),
          hold |-> CountSignal(d, 0)]
analyze_data(d) ==
    IF Empty(d) \/ "signal" \notin d.columns
    THEN [buy |-> 0, sell |-> 0, hold |-> 0]
    ELSE [buy |-> CountSignal(d, 1), sell |-> CountSignal(d, -1),
          hold |-> CountSignal(d, 0)]

NoTally == [buy |-> 0, sell |-> 0, hold |-> 0]

(***************************************************************************)
(* The program: direct calls of the store, and runs of main()              *)
(***************************************************************************)
Init ==
    /\ db = FreshDb
    /\ pc = "idle"
    /\ df = <<>>
    /\ before = FreshDb
    /\ ret = 0
    /\ conn = "none"
    /\ again = FALSE
    /\ fetch_failed = FALSE
    /\ signals_data = EmptyDataFrame
    /\ analysis_results = NoTally

\* A caller (the tests) invokes store_data_in_sql with a frame.
CallStore ==
    /\ pc = "idle"
    /\ \E d \in Frames : df' = d
    /\ pc' = "store"
    /\ again' = FALSE
    /\ UNCHANGED <<db, before, ret, conn, fetch_failed, signals_data,
                   analysis_results>>

\* store_data_in_sql runs; before keeps the database as the call found it.
StoreDataInSql ==
    /\ pc = "store"
    /\ LET r == store_data_in_sql(df, db)
       IN  /\ db' = r.db
           /\ ret' = r.ret
           /\ conn' = r.conn
           /\ pc' = IF r.raised THEN "raised" ELSE "returned"
    /\ before' = db
    /\ UNCHANGED <<df, again, fetch_failed, signals_data, analysis_results>>

\* The caller stores the same frame a second time.
CallStoreAgain ==
    /\ pc \in {"returned", "raised"}
    /\ ~again
    /\ again' = TRUE
    /\ pc' = "store"
    /\ UNCHANGED <<db, df, before, ret, conn, fetch_failed, signals_data,
                   analysis_results>>

\* The caller is done with the result.
Finish ==
    /\ pc \in {"returned", "raised", "main_done", "main_crashed"}
    /\ pc' = "idle"
    /\ df' = <<>>
    /\ before' = FreshDb
    /\ ret' = 0
    /\ conn' = "none"
    /\ again' = FALSE
    /\ fetch_failed' = FALSE
    /\ signals_data' = EmptyDataFrame
    /\ analysis_results' = NoTally
    /\ UNCHANGED db

\* main(): price_data = fetch_data(); the frame is bound to the store's df.
\* A failure of the exchange call is caught and yields an empty frame.
FetchData ==
    /\ pc = "idle"
    /\ \/ /\ \E d \in FetchedFrames : df' = d
          /\ fetch_failed' = FALSE
       \/ /\ df' = <<>>
          /\ fetch_failed' = TRUE
    /\ pc' = "main_store"
    /\ UNCHANGED <<db, before, ret, conn, again, signals_data,
                   analysis_results>>

\* main(): rows_inserted = store_data_in_sql(price_data)
MainStore ==
    /\ pc = "main_store"
    /\ LET r == store_data_in_sql(df, db)
       IN  /\ db' = r.db
           /\ ret' = r.ret
           /\ conn' = r.conn
           /\ pc' = IF r.raised THEN "main_crashed" ELSE "main_compute"
    /\ before' = db
    /\ UNCHANGED <<df, again, fetch_failed, signals_data, analysis_results>>

\* main(): signals_data = compute_signals().  The connection creates the
\* database file; the SELECT raises when the table does not exist.
ComputeSignals ==
    /\ pc = "main_compute"
    /\ db' = [db EXCEPT !.file = TRUE]
    /\ IF ~db.table_exists
       THEN /\ pc' = "main_crashed"
            /\ conn' = "open"
            /\ UNCHANGED signals_data
       ELSE /\ pc' = "main_analyze"
            /\ conn' = "closed"
            /\ \E warmup \in 0..Len(db.rows) :
                   \E ind \in [1..(Len(db.rows) - warmup) -> IndicatorSamples] :
                       signals_data' = compute_signals(db, warmup, ind)
    /\ UNCHANGED <<df, before, ret, again, fetch_failed, analysis_results>>

\* main(): analysis_results = CryptoAnalyzer(signals_data).analyze_data()
AnalyzeData ==
    /\ pc = "main_analyze"
    /\ analysis_results' = analyze_data(signals_data)
    /\ pc' = "main_done"
    /\ UNCHANGED <<db, df, before, ret, conn, again, fetch_failed,
                   signals_data>>

Next ==
    \/ CallStore
    \/ StoreDataInSql
    \/ CallStoreAgain
    \/ Finish
    \/ FetchData
    \/ MainStore
    \/ ComputeSignals
    \/ AnalyzeData

Spec == Init /\ [][Next]_vars

(***************************************************************************)
(* The signal rule on its own: a frame of indicator rows is drawn, then    *)
(* classified (project.py:150-171) and counted.                            *)
(***************************************************************************)
IndicatorGrid ==
    [close : {2, 3}, EMA_20 : 1..4, RSI : {40, 50, 60, 70, 80},
     VWAP : 1..4, BB_upper : {2, 3, 4}, BB_lower : {1, 2, 3}]

GridSamples == {[close |-> 2] @@ i : i \in IndicatorSamples}

SignalFrames ==
    {[columns |-> {"close"} \cup IndicatorColumns, rows |-> s] :
        s \in {<<r>> : r \in IndicatorGrid} \cup BoundedSeq(GridSamples, MaxLen)}

InitSignals ==
    /\ db = FreshDb
    /\ pc = "signals"
    /\ df = <<>>
    /\ before = FreshDb
    /\ ret = 0
    /\ conn = "none"
    /\ again = FALSE
    /\ fetch_failed = FALSE
    /\ signals_data \in SignalFrames \cup {EmptyDataFrame}
    /\ analysis_results = NoTally

\* compute_signals attaches the signal column to the frame left by dropna.
ClassifySignals ==
    /\ pc = "signals"
    /\ signals_data.columns # {}
    /\ signals_data' = AssignSignals(signals_data)
    /\ pc' = "classified"
    /\ UNCHANGED <<db, df, before, ret, conn, again, fetch_failed,
                   analysis_results>>

\* CryptoAnalyzer(frame).analyze_data() on any frame, classified or not.
AnalyzeSignals ==
    /\ pc \in {"signals", "classified"}
    /\ analysis_results' = analyze_data(signals_data)
    /\ pc' = "analyzed"
    /\ UNCHANGED <<db, df, before, ret, conn, again, fetch_failed,
                   signals_data>>

NextSignals == ClassifySignals \/ AnalyzeSignals

SpecSignals == InitSignals /\ [][NextSignals]_vars

(***************************************************************************)
(* Properties                                                              *)
(***************************************************************************)
\* store_data_in_sql has run and before holds the database it found.
AfterStore ==
    pc \in {"returned", "raised", "main_compute", "main_analyze",
            "main_done", "main_crashed"}

\* store_data_in_sql has returned a value.
StoreReturned ==
    pc \in {"returned", "main_compute", "main_analyze", "main_done"}

\* The greatest stored day, read from the stored texts.
MaxDay(rows) ==
    CHOOSE m \in {ToDatetime(r.timestamp) : r \in Range(rows)} :
        \A r \in Range(rows) : ToDatetime(r.timestamp) <= m

\* The rows the last call added.
Inserted == SubSeq(db.rows, Len(before.rows) + 1, Len(db.rows))

StrictlyIncreasing(rows) ==
    \A i, j \in 1..Len(rows) :
        i < j => ToDatetime(rows[i].timestamp) < ToDatetime(rows[j].timestamp)

NoDuplicateTimestamps(rows) ==
    \A i, j \in 1..Len(rows) :
        i # j => ToDatetime(rows[i].timestamp) # ToDatetime(rows[j].timestamp)

DistinctTimestamps(d) ==
    \A i, j \in 1..Len(d) : i # j => d[i].timestamp # d[j].timestamp

StrictlyAscending(d) ==
    \A i, j \in 1..Len(d) : i < j => d[i].timestamp < d[j].timestamp

\* C1: when store_data_in_sql is called a second time in succession with the
\* same frame, the second call returns 0 and leaves the database as the
\* first call left it.
C1_SecondStoreInsertsNothing ==
    (again /\ pc \in {"returned", "raised"}) =>
        (pc = "returned" /\ ret = 0 /\ db = before)

\* C2 (as claimed): after any calls the table's rows, in insertion order,
\* have strictly increasing timestamps (so no timestamp occurs twice).
C2_TableStrictlyIncreasing == StrictlyIncreasing(db.rows)

\* C2 (amended): the table never holds two rows with the same timestamp,
\* and a call whose input ascends strictly keeps a strictly increasing
\* table strictly increasing.
C2_NoDuplicatesIncreasingWhenSorted ==
    /\ NoDuplicateTimestamps(db.rows)
    /\ (AfterStore /\ StrictlyIncreasing(before.rows) /\ StrictlyAscending(df))
           => StrictlyIncreasing(db.rows)

\* C2 witness: a call has inserted its two rows out of order.
C2_Witness ==
    /\ pc = "returned"
    /\ ret = 2
    /\ ~StrictlyIncreasing(Inserted)
    /\ NoDuplicateTimestamps(db.rows)

\* C3: on a non-empty table, every row a call inserts has a timestamp
\* strictly greater than the maximum stored before the call.
C3_InsertedRowsAreNewer ==
    (AfterStore /\ before.rows # <<>>) =>
        \A r \in Range(db.rows) \ Range(before.rows) :
            ToDatetime(r.timestamp) > MaxDay(before.rows)

\* C3 witness: a call on a non-empty table dropped a row and inserted one.
C3_Witness ==
    /\ pc = "returned"
    /\ before.rows # <<>>
    /\ ret > 0
    /\ ret < Len(df)

\* C4: the returned value is the number of rows appended; it is 0 for an
\* empty input or an input with nothing newer than the stored maximum; n
\* candles of distinct timestamps stored into an empty table return n and
\* leave n rows.
C4_ReturnsRowsAppended ==
    StoreReturned =>
        /\ Len(db.rows) = Len(before.rows) + ret
        /\ df = <<>> => ret = 0
        /\ (/\ before.rows # <<>>
            /\ \A c \in Range(df) : c.timestamp <= MaxDay(before.rows))
               => ret = 0
        /\ (before.rows = <<>> /\ DistinctTimestamps(df))
               => (ret = Len(df) /\ Len(db.rows) = Len(df))

\* C4 witness: the longest frame of distinct timestamps went into an empty
\* table.
C4_Witness ==
    /\ pc = "returned"
    /\ before.rows = <<>>
    /\ Len(df) = MaxLen
    /\ DistinctTimestamps(df)
    /\ ret = MaxLen

\* C5: every row stored before a call is stored unchanged after it.
C5_StoredRowsKept ==
    AfterStore =>
        /\ \A r \in Range(before.rows) : r \in Range(db.rows)
        /\ SubSeq(db.rows, 1, Len(before.rows)) = before.rows

\* C5 witness: a call that inserted rows was also given a candle with a
\* stored timestamp and other values.
C5_Witness ==
    /\ pc = "returned"
    /\ ret > 0
    /\ \E c \in Range(df) : \E r \in Range(before.rows) :
           /\ ToDatetime(r.timestamp) = c.timestamp
           /\ r.close # c.close

\* C6: a call with an empty frame returns 0, opens no connection and
\* leaves the file, the table, the index and the rows as they were.
C6_EmptyInputTouchesNothing ==
    (pc \in {"returned", "main_compute"} /\ df = <<>>) =>
        (ret = 0 /\ conn = "none" /\ db = before)

\* C6 witness: an empty frame was stored while no database existed.
C6_Witness ==
    /\ pc = "returned"
    /\ df = <<>>
    /\ ~db.file
    /\ ~db.table_exists

\* C7: a run of main whose fetch failed does not raise: the store inserts
\* nothing, compute_signals returns (an empty result when no row is
\* stored) and the tally is then buy 0, sell 0, hold 0.
C7_FailedFetchRunCompletes ==
    fetch_failed =>
        /\ pc # "main_crashed"
        /\ pc = "main_compute" => (ret = 0 /\ db = before)
        /\ (pc \in {"main_analyze", "main_done"} /\ db.rows = <<>>)
               => signals_data = EmptyDataFrame
        /\ (pc = "main_done" /\ db.rows = <<>>) => analysis_results = NoTally

\* C8: a returned row has signal 1 exactly when close > EMA_20, close > VWAP,
\* 50 < RSI < 70 and close < BB_upper; -1 exactly when close < EMA_20,
\* close < VWAP, RSI < 50 and close > BB_lower; and 0 otherwise.
C8_SignalRule ==
    pc = "classified" =>
        \A r \in Range(signals_data.rows) :
            LET buy == /\ r.close > r.EMA_20 /\ r.close > r.VWAP
                       /\ 50 < r.RSI /\ r.RSI < 70 /\ r.close < r.BB_upper
                sell == /\ r.close < r.EMA_20 /\ r.close < r.VWAP
                        /\ r.RSI < 50 /\ r.close > r.BB_lower
            IN  /\ r.signal = 1 <=> buy
                /\ r.signal = -1 <=> sell
                /\ r.signal = 0 <=> (~buy /\ ~sell)

\* C8 witness: a row that misses the buy rule only by close = EMA_20 holds.
C8_Witness ==
    /\ pc = "classified"
    /\ \E r \in Range(signals_data.rows) :
           /\ r.close = r.EMA_20 /\ r.close > r.VWAP
           /\ r.RSI = 60 /\ r.close < r.BB_upper
           /\ r.signal = 0

\* C9: no row meets the buy and the sell condition together, so a buy is
\* never overwritten by the later sell assignment, and rows with equal
\* fields get equal signals.
C9_BuySellExclusive ==
    pc = "classified" =>
        /\ \A r \in Range(signals_data.rows) :
               /\ ~(bullish_conditions(r) /\ bearish_conditions(r))
               /\ bullish_conditions(r) => r.signal = 1
        /\ \A r, s \in Range(signals_data.rows) :
               (\A f \in {"close"} \cup IndicatorColumns : r[f] = s[f])
                   => r.signal = s.signal

\* C9 witness: a classified frame holds a buy row and a sell row.
C9_Witness ==
    /\ pc = "classified"
    /\ \E r, s \in Range(signals_data.rows) :
           /\ bullish_conditions(r) /\ r.signal = 1
           /\ bearish_conditions(s) /\ s.signal = -1

\* C10: analyze_data returns 0, 0, 0 for a frame that is empty or has no
\* signal column, and otherwise the numbers of rows with signal 1, -1 and
\* 0, which add up to the number of rows.
C10_TallyCountsSignals ==
    pc = "analyzed" =>
        IF signals_data.rows = <<>> \/ "signal" \notin signals_data.columns
        THEN analysis_results = [buy |-> 0, sell |-> 0, hold |-> 0]
        ELSE LET n(v) == Cardinality({i \in 1..Len(signals_data.rows) :
                                          signals_data.rows[i].signal = v})
             IN  /\ analysis_results.buy = n(1)
                 /\ analysis_results.sell = n(-1)
                 /\ analysis_results.hold = n(0)
                 /\ analysis_results.buy + analysis_results.sell
                        + analysis_results.hold = Len(signals_data.rows)

\* C10 witness: a frame with rows and no signal column was counted.
C10_Witness ==
    /\ pc = "analyzed"
    /\ signals_data.rows # <<>>
    /\ "signal" \notin signals_data.columns
    /\ analysis_results = [buy |-> 0, sell |-> 0, hold |-> 0]
=============================================================================
